---- MODULE Spec2Model ----
(***************************************************************************)
(* Model of the two operator procedures of homelab-apps/scripts:           *)
(*   sync_pvc_from_host.py  (Volume Sync)                                  *)
(*   migrate_database.py    (Database Migration)                           *)
(* Every blocking call (a kubectl subprocess, time.sleep) is one step; the *)
(* environment chooses its outcome: success, a non-zero exit               *)
(* (CalledProcessError, "fail"), or a KeyboardInterrupt raised while the   *)
(* call is blocked ("int").  The Python control flow around the call       *)
(* (try / except / finally, sys.exit) is part of the step that raises.     *)
(***************************************************************************)
EXTENDS Integers, Sequences, FiniteSets, TLC

(* ------------------------------ bounds -------------------------------- *)
\* longest time, in seconds, one pod-status query may take
MaxPollTime == 1
\* largest file count a probe reports
MaxFiles == 1
\* longest dump payload, in bytes
MaxDumpLen == 1
\* calls of check_host_path_exists_on_node
MaxCalls == 3
\* readings of the clock per second, and the latest reading at which an
\* invocation starts
TicksPerSecond == 2
MaxStartTick == 3

(* ------------------------- program constants -------------------------- *)
max_wait == 60
sleep_secs == 2
tolerance == 1024
\* 128 + SIGINT: status of a Python process ended by an uncaught
\* KeyboardInterrupt (interpreters older than 3.8 end with status 1 instead)
sigint_status == 130

(* ============================ Volume Sync ============================= *)
VARIABLES
  dry_run,        \* args.dry_run
  verify,         \* args.verify
  pc,             \* the blocking call main() is about to make
  pod_created,    \* main's local flag, sync_pvc_from_host.py:325
  elapsed,        \* time.time() - start_time inside create_temp_pod
  wait_outcome,   \* how create_temp_pod ended: "none" while it has not
  tmp_manifest,   \* the manifest temp file exists on local disk
  pending,        \* exit status main has settled on when it enters finally
  exit_code,      \* exit status of the process, meaningful when pc = "exited"
  issued,         \* kubectl commands issued so far, in order
  result,         \* outcome of the latest invocation of each command
  pipe,           \* exit statuses inside the copy script: cd, tar -c, tar -x
  probe,          \* numbers parsed by verify_sync
  verify_ret,     \* value verify_sync returned: "none" until it returns
  success_printed \* "Sync completed successfully!" was printed

syncVars == <<dry_run, verify, pc, pod_created, elapsed, wait_outcome,
              tmp_manifest, pending,
              exit_code, issued, result, pipe, probe, verify_ret,
              success_printed>>

SyncCmds == {"get_pvc", "apply", "get_pod", "sleep", "test_d", "file_count",
             "copy", "host_count", "host_size", "pvc_count", "pvc_size",
             "delete_pod"}

Phases == {"Pending", "Running", "Failed"}
PollTimes == 0 .. MaxPollTime
Counts == 0 .. MaxFiles
Sizes == {0, 1, tolerance, tolerance + 1}
VerifyProbes == <<"host_count", "host_size", "pvc_count", "pvc_size">>

abs(x) == IF x < 0 THEN -x ELSE x

\* run_kubectl / time.sleep: the call is made and its outcome recorded
run_kubectl(cmd, res) ==
  /\ issued' = IF cmd = "sleep" THEN issued ELSE Append(issued, cmd)
  /\ result' = [result EXCEPT ![cmd] = res]

\* sys.exit(code) reaching the interpreter
sys_exit(code) ==
  /\ pc' = "exited"
  /\ exit_code' = code

\* a KeyboardInterrupt that no except clause catches ends the interpreter
UncaughtStatus == {1, sigint_status}

uncaught_interrupt ==
  /\ pc' = "exited"
  /\ exit_code' \in UncaughtStatus

\* main's try statement is left with exit status code: the finally clause
\* calls delete_pod only if pod_created
main_finally(code, created) ==
  IF created
    THEN /\ pc' = "delete_pod"
         /\ pending' = code
         /\ exit_code' = exit_code
    ELSE /\ sys_exit(code)
         /\ pending' = pending

\* create_temp_pod's finally clause: os.unlink(temp_file), OSError ignored
unlink_manifest ==
  \E unlinked \in BOOLEAN : tmp_manifest' = ~unlinked

\* state of the script before main runs; started is FALSE where the script
\* is not invoked at all
SyncState(started) ==
  /\ dry_run \in (IF started THEN BOOLEAN ELSE {FALSE})
  /\ verify \in (IF started THEN BOOLEAN ELSE {FALSE})
  /\ pc = IF started THEN "check_pvc" ELSE "idle"
  /\ pod_created = FALSE
  /\ elapsed = 0
  /\ wait_outcome = "none"
  /\ tmp_manifest = FALSE
  /\ pending = 0
  /\ exit_code = 0
  /\ issued = <<>>
  /\ result = [c \in SyncCmds |-> "none"]
  /\ pipe = [cd |-> 0, create |-> 0, extract |-> 0]
  /\ probe = [p \in {"host_count", "host_size", "pvc_count", "pvc_size"} |-> 0]
  /\ verify_ret = "none"
  /\ success_printed = FALSE

\* check_pvc_exists, lines 46-52: its return value from kubectl's outcome
check_pvc_exists_ret(res) == res = "ok"

\* main_validate with the dry-run test of line 317 left out
main_validate_ignoring_dry_run(exists, dry) ==
  IF ~exists THEN "exit 1" ELSE "create_temp_pod"

\* main, lines 310-320: what main does once check_pvc_exists has returned
main_validate(exists, dry) ==
  IF ~exists THEN "exit 1"
  ELSE IF dry THEN "exit 0"
  ELSE "create_temp_pod"

\* main, lines 309-325 and the start of create_temp_pod (lines 68-104)
check_pvc_exists ==
  /\ pc = "check_pvc"
  /\ \E res \in {"ok", "fail", "int"} :
       /\ run_kubectl("get_pvc", res)
       /\ IF res = "int" THEN
            \* raised outside main's try statement: nothing catches it
            uncaught_interrupt /\ tmp_manifest' = tmp_manifest
          ELSE IF main_validate(check_pvc_exists_ret(res), dry_run) = "exit 1" THEN
            sys_exit(1) /\ tmp_manifest' = tmp_manifest
          ELSE IF main_validate(check_pvc_exists_ret(res), dry_run) = "exit 0" THEN
            sys_exit(0) /\ tmp_manifest' = tmp_manifest
          ELSE
            /\ pc' = "apply"
            /\ tmp_manifest' = TRUE
            /\ exit_code' = exit_code
  /\ UNCHANGED <<dry_run, verify, pod_created, elapsed, wait_outcome, pending,
                 pipe, probe, verify_ret, success_printed>>

\* create_temp_pod, lines 106-113
create_temp_pod_apply ==
  /\ pc = "apply"
  /\ \E res \in {"ok", "fail", "int"} :
       /\ run_kubectl("apply", res)
       /\ IF res = "ok" THEN
            /\ pc' = "get_pod"
            /\ elapsed' = 0
            /\ UNCHANGED <<wait_outcome, tmp_manifest, pending, exit_code>>
          ELSE
            \* the exception leaves create_temp_pod through its finally and
            \* reaches main's except clauses: sys.exit(1), pod_created False
            /\ unlink_manifest
            /\ main_finally(1, pod_created)
            /\ elapsed' = elapsed
            /\ wait_outcome' = "raised"
  /\ UNCHANGED <<dry_run, verify, pod_created, pipe, probe, verify_ret,
                 success_printed>>

\* create_temp_pod, lines 115-128: one status query of the wait loop
create_temp_pod_poll ==
  /\ pc = "get_pod"
  /\ \E res \in Phases \cup {"fail", "int"}, d \in PollTimes :
       /\ run_kubectl("get_pod", res)
       /\ IF res = "Running" THEN
            \* return True; main sets pod_created and calls sync_data_from_host
            /\ unlink_manifest
            /\ pod_created' = TRUE
            /\ pc' = "test_d"
            /\ elapsed' = 0
            /\ wait_outcome' = "ready"
            /\ UNCHANGED <<pending, exit_code>>
          ELSE IF res \in {"Failed", "int"} THEN
            \* return False then sys.exit(1), or KeyboardInterrupt caught by
            \* main: either way pod_created is still False
            /\ unlink_manifest
            /\ main_finally(1, pod_created)
            /\ elapsed' = 0
            /\ wait_outcome' = IF res = "Failed" THEN "failed" ELSE "raised"
            /\ pod_created' = pod_created
          ELSE
            /\ pc' = "sleep"
            /\ elapsed' = elapsed + d
            /\ UNCHANGED <<wait_outcome, tmp_manifest, pod_created, pending,
                           exit_code>>
  /\ UNCHANGED <<dry_run, verify, pipe, probe, verify_ret,
                 success_printed>>

\* create_temp_pod_sleep whose loop test is <= max_wait: one more status
\* query is made when exactly max_wait seconds have gone
create_temp_pod_sleep_inclusive ==
  /\ pc = "sleep"
  /\ \E res \in {"ok", "int"} :
       /\ run_kubectl("sleep", res)
       /\ IF res = "ok" /\ elapsed + sleep_secs <= max_wait THEN
            /\ pc' = "get_pod"
            /\ elapsed' = elapsed + sleep_secs
            /\ UNCHANGED <<wait_outcome, tmp_manifest, pending, exit_code>>
          ELSE
            /\ unlink_manifest
            /\ main_finally(1, pod_created)
            /\ elapsed' = IF res = "ok" THEN elapsed + sleep_secs ELSE 0
            /\ wait_outcome' = IF res = "ok" THEN "timeout" ELSE "raised"
  /\ UNCHANGED <<dry_run, verify, pod_created, pipe, probe, verify_ret,
                 success_printed>>

\* create_temp_pod, lines 130-133 and the loop test of line 115
create_temp_pod_sleep ==
  /\ pc = "sleep"
  /\ \E res \in {"ok", "int"} :
       /\ run_kubectl("sleep", res)
       /\ IF res = "ok" /\ elapsed + sleep_secs < max_wait THEN
            /\ pc' = "get_pod"
            /\ elapsed' = elapsed + sleep_secs
            /\ UNCHANGED <<wait_outcome, tmp_manifest, pending, exit_code>>
          ELSE
            \* timeout: return False then sys.exit(1); or KeyboardInterrupt
            /\ unlink_manifest
            /\ main_finally(1, pod_created)
            \* the time at which the loop test of line 115 failed is kept
            /\ elapsed' = IF res = "ok" THEN elapsed + sleep_secs ELSE 0
            /\ wait_outcome' = IF res = "ok" THEN "timeout" ELSE "raised"
  /\ UNCHANGED <<dry_run, verify, pod_created, pipe, probe, verify_ret,
                 success_printed>>

\* sync_test_host_path running the test with check=False: its exit status is
\* not looked at
sync_test_host_path_unchecked ==
  /\ pc = "test_d"
  /\ \E res \in {"ok", "fail", "int"} :
       /\ run_kubectl("test_d", res)
       /\ IF res \in {"ok", "fail"} THEN
            /\ pc' = "file_count"
            /\ UNCHANGED <<pending, exit_code>>
          ELSE
            main_finally(1, pod_created)
  /\ UNCHANGED <<dry_run, verify, pod_created, elapsed, wait_outcome,
                 tmp_manifest, pipe,
                 probe, verify_ret, success_printed>>

\* sync_data_from_host, lines 156-166: test -d /host-data, check=True
sync_test_host_path ==
  /\ pc = "test_d"
  /\ \E res \in {"ok", "fail", "int"} :
       /\ run_kubectl("test_d", res)
       /\ IF res = "ok" THEN
            /\ pc' = "file_count"
            /\ UNCHANGED <<pending, exit_code>>
          ELSE
            \* CalledProcessError re-raised, or KeyboardInterrupt: main's
            \* except clauses call sys.exit(1)
            main_finally(1, pod_created)
  /\ UNCHANGED <<dry_run, verify, pod_created, elapsed, wait_outcome,
                 tmp_manifest, pipe,
                 probe, verify_ret, success_printed>>

\* sync_file_count refusing to go on when the source has no files or cannot
\* be counted: the run ends with status 1 before the copy
sync_file_count_refusing_empty ==
  /\ pc = "file_count"
  /\ \E res \in {"zero", "ok", "garbage", "fail", "int"} :
       /\ run_kubectl("file_count", res)
       /\ IF res \in {"zero", "fail"}
            THEN main_finally(1, pod_created)
            ELSE pc' = "copy" /\ UNCHANGED <<pending, exit_code>>
  /\ UNCHANGED <<dry_run, verify, pod_created, elapsed, wait_outcome,
                 tmp_manifest, pipe, probe, verify_ret, success_printed>>

\* sync_file_count without its try/except: a failed probe, unparsable output
\* and KeyboardInterrupt all reach main's except clauses
sync_file_count_unguarded ==
  /\ pc = "file_count"
  /\ \E res \in {"zero", "ok", "garbage", "fail", "int"} :
       /\ run_kubectl("file_count", res)
       /\ IF res \in {"zero", "ok"}
            THEN pc' = "copy" /\ UNCHANGED <<pending, exit_code>>
            ELSE main_finally(1, pod_created)
  /\ UNCHANGED <<dry_run, verify, pod_created, elapsed, wait_outcome,
                 tmp_manifest, pipe, probe, verify_ret, success_printed>>

\* sync_data_from_host, lines 168-180: the file-count probe sits in a bare
\* try/except, so a non-zero exit, unparsable output and KeyboardInterrupt
\* are all swallowed
sync_file_count ==
  /\ pc = "file_count"
  /\ \E res \in {"zero", "ok", "garbage", "fail", "int"} :
       run_kubectl("file_count", res)
  /\ pc' = "copy"
  /\ UNCHANGED <<dry_run, verify, pod_created, elapsed, wait_outcome,
                 tmp_manifest, pending,
                 exit_code, pipe, probe, verify_ret, success_printed>>

\* the shell script of lines 188-202: cd /host-data && tar -cf - . | (cd
\* /pvc-data && tar -xf -), then exit 1 unless $? is 0.  $? of a pipeline is
\* the status of its last command; a failed cd skips the pipeline.
copy_script_status(cd, create, extract) ==
  LET last == IF cd # 0 THEN cd ELSE extract
  IN  IF last = 0 THEN 0 ELSE 1

\* main, lines 335-342, once sync_data_from_host or verify_sync has returned
main_report_success ==
  /\ success_printed' = TRUE
  /\ main_finally(0, pod_created)

\* sync_data_from_host, lines 182-206, and main lines 335-342
sync_copy ==
  /\ pc = "copy"
  /\ \/ /\ run_kubectl("copy", "int")
        /\ main_finally(1, pod_created)
        /\ UNCHANGED <<pipe, success_printed>>
     \/ \E cd \in {0, 1}, create \in {0, 1}, extract \in {0, 1} :
          /\ cd # 0 => (create = 0 /\ extract = 0)
          /\ pipe' = [cd |-> cd, create |-> create, extract |-> extract]
          /\ IF copy_script_status(cd, create, extract) = 0 THEN
               /\ run_kubectl("copy", "ok")
               /\ IF verify
                    THEN /\ pc' = "host_count"
                         /\ UNCHANGED <<pending, exit_code, success_printed>>
                    ELSE main_report_success
             ELSE
               /\ run_kubectl("copy", "fail")
               /\ main_finally(1, pod_created)
               /\ success_printed' = success_printed
  /\ UNCHANGED <<dry_run, verify, pod_created, elapsed, wait_outcome,
                 tmp_manifest, probe,
                 verify_ret>>

\* verify_match accepting a size difference of the whole tolerance
verify_match_inclusive(host_file_count, host_total_size, pvc_file_count, pvc_total_size) ==
  /\ host_file_count = pvc_file_count
  /\ abs(host_total_size - pvc_total_size) <= tolerance

\* verify_sync, line 255
verify_match(host_file_count, host_total_size, pvc_file_count, pvc_total_size) ==
  /\ host_file_count = pvc_file_count
  /\ abs(host_total_size - pvc_total_size) < tolerance

ProbeValues(p) == IF p \in {"host_count", "pvc_count"} THEN Counts ELSE Sizes

ProbeIndex(p) == CHOOSE i \in 1 .. Len(VerifyProbes) : VerifyProbes[i] = p

\* verify_sync, lines 213-258: one of its four probes.  Only
\* CalledProcessError is caught there; int() of unparsable output raises
\* ValueError, which reaches main's except Exception.
verify_sync_probe ==
  /\ pc \in {"host_count", "host_size", "pvc_count", "pvc_size"}
  /\ \/ \E v \in ProbeValues(pc) :
          /\ run_kubectl(pc, "ok")
          /\ probe' = [probe EXCEPT ![pc] = v]
          /\ IF ProbeIndex(pc) < Len(VerifyProbes) THEN
               /\ pc' = VerifyProbes[ProbeIndex(pc) + 1]
               /\ UNCHANGED <<pending, exit_code, verify_ret, success_printed>>
             ELSE
               /\ verify_ret' =
                    IF verify_match(probe'["host_count"], probe'["host_size"],
                                    probe'["pvc_count"], probe'["pvc_size"])
                      THEN "true" ELSE "false"
               /\ main_report_success
     \/ /\ run_kubectl(pc, "fail")
        /\ verify_ret' = "false"
        /\ main_report_success
        /\ probe' = probe
     \/ \E res \in {"garbage", "int"} :
          /\ run_kubectl(pc, res)
          /\ main_finally(1, pod_created)
          /\ UNCHANGED <<probe, verify_ret, success_printed>>
  /\ UNCHANGED <<dry_run, verify, pod_created, elapsed, wait_outcome,
                 tmp_manifest, pipe>>

\* delete_pod without its except clause: a failed kubectl delete raises out
\* of main's finally clause and the process exits with status 1
delete_pod_raising ==
  /\ pc = "delete_pod"
  /\ \E res \in {"ok", "fail", "int"} :
       /\ run_kubectl("delete_pod", res)
       /\ IF res = "int" THEN uncaught_interrupt
          ELSE IF res = "fail" THEN sys_exit(1)
          ELSE sys_exit(pending)
  /\ UNCHANGED <<dry_run, verify, pod_created, elapsed, wait_outcome,
                 tmp_manifest, pending,
                 pipe, probe, verify_ret, success_printed>>

\* delete_pod, lines 142-149, called from main's finally clause, and the exit
\* of the process.  CalledProcessError is caught; a KeyboardInterrupt raised
\* here replaces the pending exit and nothing catches it.
delete_pod ==
  /\ pc = "delete_pod"
  /\ \E res \in {"ok", "fail", "int"} :
       /\ run_kubectl("delete_pod", res)
       /\ IF res = "int" THEN uncaught_interrupt ELSE sys_exit(pending)
  /\ UNCHANGED <<dry_run, verify, pod_created, elapsed, wait_outcome,
                 tmp_manifest, pending,
                 pipe, probe, verify_ret, success_printed>>

(* ========================= Database Migration ========================= *)
\* Runs of migrate_database.py against the one destination pod.  A run that
\* was never started stays "idle".
Runs == {1, 2}

VARIABLES
  clean,          \* args.clean of each run
  mpc,            \* the blocking call each run is about to make
  m_exit,         \* exit status of each run, meaningful when mpc = "exited"
  m_issued,       \* commands each run has issued, in order, with their argv
  m_result,       \* outcome of each command of each run
  dump_data,      \* bytes returned by dump_database
  local_tmp,      \* the run's local NamedTemporaryFile
  remote_dump,    \* /tmp/dump.dump inside the destination pod (shared)
  restored,       \* what the run's pg_restore read from /tmp/dump.dump
  m_raised,       \* exception that left a step, on its way to the handler of
                  \* lines 330-335 (through restore_database's finally clause)
  m_success       \* "Migration completed successfully!" was printed

migVars == <<clean, mpc, m_exit, m_issued, m_result, dump_data, local_tmp,
             remote_dump, restored, m_raised, m_success>>

SOURCE_POD == "prod-postgres-cluster-0"
DEST_POD == "postgres-statefulset-0"
SOURCE_DEFAULT_USER == "homelab"
DEST_DEFAULT_USER == "postgres"
\* args.source_db and args.dest_db
source_db == "source_db"
dest_db == "dest_db"

MigSteps == {"check_source_pod", "check_dest_pod", "check_source_db",
             "check_dest_db", "pg_dump", "kubectl_cp", "pg_restore",
             "rm_dump", "fix_permissions"}

Bytes == {0, 1}
SeqsUpTo(n) == UNION {[1 .. k -> Bytes] : k \in 0 .. n}
Payloads == SeqsUpTo(MaxDumpLen)
NoFile == [exists |-> FALSE, data |-> <<>>]
File(data) == [exists |-> TRUE, data |-> data]

\* subprocess.run of one command by run r: it is issued and its outcome kept
m_run(r, step, pod, argv, res) ==
  /\ m_issued' = [m_issued EXCEPT
                    ![r] = Append(@, [step |-> step, pod |-> pod, argv |-> argv])]
  /\ m_result' = [m_result EXCEPT ![r][step] = res]

\* the process of run r ends: sys.exit(1) in main, the handlers of lines
\* 330-335, or main returning
m_sys_exit(r, code) ==
  /\ mpc' = [mpc EXCEPT ![r] = "exited"]
  /\ m_exit' = [m_exit EXCEPT ![r] = code]

m_goto(r, step) ==
  /\ mpc' = [mpc EXCEPT ![r] = step]
  /\ m_exit' = m_exit

Raised(res) ==
  IF res = "int" THEN "KeyboardInterrupt"
  ELSE IF res = "fail" THEN "CalledProcessError"
  ELSE "none"

m_raise(r, exc) == m_raised' = [m_raised EXCEPT ![r] = exc]

MigrateInitCommon ==
  /\ clean \in [Runs -> BOOLEAN]
  /\ m_exit = [r \in Runs |-> 0]
  /\ m_issued = [r \in Runs |-> <<>>]
  /\ m_result = [r \in Runs |-> [s \in MigSteps |-> "none"]]
  /\ dump_data = [r \in Runs |-> <<>>]
  /\ local_tmp = [r \in Runs |-> NoFile]
  /\ remote_dump = NoFile
  /\ restored = [r \in Runs |-> NoFile]
  /\ m_raised = [r \in Runs |-> "none"]
  /\ m_success = [r \in Runs |-> FALSE]

\* state before main runs, with the runs in started invoked
MigrateState(started) ==
  /\ MigrateInitCommon
  /\ mpc = [r \in Runs |-> IF r \in started THEN "check_source_pod" ELSE "idle"]
  /\ \A r \in Runs \ started : clean[r] = FALSE

\* check_pod_exists, lines 74-88, from its output or failure
check_pod_exists_ret(res) == res = "Running"

\* check_database_exists answering True when the probe itself failed
check_database_exists_fail_open(res) == res \in {"1", "fail"}

\* check_database_exists, lines 98-102
check_database_exists_ret(res) == res = "1"

\* main, lines 280-292: the two pod checks.  A False return leads to
\* sys.exit(1); a KeyboardInterrupt is not caught by the check and reaches
\* the handler of lines 330-332, which also exits with code 1.
check_pod_exists(r) ==
  /\ mpc[r] \in {"check_source_pod", "check_dest_pod"}
  /\ \E res \in {"Running", "Pending", "fail", "int"} :
       /\ m_run(r, mpc[r],
                IF mpc[r] = "check_source_pod" THEN SOURCE_POD ELSE DEST_POD,
                <<"kubectl", "get", "pod">>, res)
       /\ IF check_pod_exists_ret(res)
            THEN m_goto(r, IF mpc[r] = "check_source_pod"
                             THEN "check_dest_pod" ELSE "check_source_db")
            ELSE m_sys_exit(r, 1)
       \* CalledProcessError is caught at line 87
       /\ m_raise(r, IF res = "int" THEN Raised(res) ELSE "none")
  /\ UNCHANGED <<clean, dump_data, local_tmp, remote_dump, restored, m_success>>

\* check_database_exists without its except clause: the CalledProcessError of
\* a failed probe leaves the function
check_database_exists_propagating(r) ==
  /\ mpc[r] \in {"check_source_db", "check_dest_db"}
  /\ \E res \in {"1", "", "fail", "int"} :
       /\ IF mpc[r] = "check_source_db"
            THEN m_run(r, mpc[r], SOURCE_POD,
                       <<"psql", "-U", SOURCE_DEFAULT_USER, "-tAc", source_db>>, res)
            ELSE m_run(r, mpc[r], DEST_POD,
                       <<"psql", "-U", DEST_DEFAULT_USER, "-tAc", dest_db>>, res)
       /\ IF check_database_exists_ret(res)
            THEN m_goto(r, IF mpc[r] = "check_source_db"
                             THEN "check_dest_db" ELSE "pg_dump")
            ELSE m_sys_exit(r, 1)
       /\ m_raise(r, Raised(res))
  /\ UNCHANGED <<clean, dump_data, local_tmp, remote_dump, restored, m_success>>

\* main, lines 294-307: the two database checks; False and KeyboardInterrupt
\* end the run as for the pod checks
check_database_exists(r) ==
  /\ mpc[r] \in {"check_source_db", "check_dest_db"}
  /\ \E res \in {"1", "", "fail", "int"} :
       /\ IF mpc[r] = "check_source_db"
            THEN m_run(r, mpc[r], SOURCE_POD,
                       <<"psql", "-U", SOURCE_DEFAULT_USER, "-tAc", source_db>>, res)
            ELSE m_run(r, mpc[r], DEST_POD,
                       <<"psql", "-U", DEST_DEFAULT_USER, "-tAc", dest_db>>, res)
       /\ IF check_database_exists_ret(res)
            THEN m_goto(r, IF mpc[r] = "check_source_db"
                             THEN "check_dest_db" ELSE "pg_dump")
            ELSE m_sys_exit(r, 1)
       \* CalledProcessError is caught at line 101
       /\ m_raise(r, IF res = "int" THEN Raised(res) ELSE "none")
  /\ UNCHANGED <<clean, dump_data, local_tmp, remote_dump, restored, m_success>>

\* dump_database without the emptiness test of line 120
dump_is_empty_unchecked(data) == FALSE

\* dump_database, line 120
dump_is_empty(data) == Len(data) = 0

\* dump_database, lines 105-125, and restore_database lines 186-188
dump_database(r) ==
  /\ mpc[r] = "pg_dump"
  /\ \/ \E data \in Payloads :
          /\ m_run(r, "pg_dump", SOURCE_POD,
                   <<"pg_dump", "-U", SOURCE_DEFAULT_USER, "-F", "c", source_db>>,
                   "ok")
          /\ IF dump_is_empty(data) THEN
               \* RuntimeError, caught at line 333
               /\ m_sys_exit(r, 1)
               /\ m_raise(r, "RuntimeError")
               /\ UNCHANGED <<dump_data, local_tmp>>
             ELSE
               \* main goes on to restore_database, which writes the payload
               \* to a local temporary file
               /\ dump_data' = [dump_data EXCEPT ![r] = data]
               /\ local_tmp' = [local_tmp EXCEPT ![r] = File(data)]
               /\ m_goto(r, "kubectl_cp")
               /\ m_raised' = m_raised
     \/ \E res \in {"fail", "int"} :
          /\ m_run(r, "pg_dump", SOURCE_POD,
                   <<"pg_dump", "-U", SOURCE_DEFAULT_USER, "-F", "c", source_db>>,
                   res)
          /\ m_sys_exit(r, 1)
          /\ m_raise(r, Raised(res))
          /\ UNCHANGED <<dump_data, local_tmp>>
  /\ UNCHANGED <<clean, remote_dump, restored, m_success>>

\* restore_database's first finally clause, lines 200-205
unlink_local(r) ==
  \E unlinked \in BOOLEAN :
    local_tmp' = [local_tmp EXCEPT ![r] = IF unlinked THEN NoFile ELSE @]

Prefixes(data) == {SubSeq(data, 1, k) : k \in 0 .. Len(data)}

\* restore_database, lines 190-205: kubectl cp of the local file
restore_database_cp(r) ==
  /\ mpc[r] = "kubectl_cp"
  /\ \/ /\ m_run(r, "kubectl_cp", DEST_POD,
                 <<"kubectl", "cp", "/tmp/dump.dump">>, "ok")
        /\ remote_dump' = File(local_tmp[r].data)
        /\ m_goto(r, "pg_restore")
        /\ m_raised' = m_raised
     \/ \E res \in {"fail", "int"} :
          /\ m_run(r, "kubectl_cp", DEST_POD,
                   <<"kubectl", "cp", "/tmp/dump.dump">>, res)
          \* a copy that broke off leaves nothing, or part of the file
          /\ \/ remote_dump' = remote_dump
             \/ \E part \in Prefixes(local_tmp[r].data) : remote_dump' = File(part)
          /\ m_sys_exit(r, 1)
          /\ m_raise(r, Raised(res))
  /\ unlink_local(r)
  /\ UNCHANGED <<clean, dump_data, restored, m_success>>

\* restore_cmd appending --clean whatever the option says
restore_cmd_always_clean(pg_user, db_name, with_clean) ==
  <<"pg_restore", "-U", pg_user, "-d", db_name, "-v", "--no-owner", "--no-acl",
    "--clean", "/tmp/dump.dump">>

\* restore_database, lines 208-222
restore_cmd(pg_user, db_name, with_clean) ==
  <<"pg_restore", "-U", pg_user, "-d", db_name, "-v", "--no-owner", "--no-acl">>
    \o (IF with_clean THEN <<"--clean">> ELSE <<>>)
    \o <<"/tmp/dump.dump">>

\* restore_database_pg_restore with the rm outside a finally clause: a failed
\* pg_restore leaves restore_database at once
restore_database_pg_restore_no_finally(r) ==
  /\ mpc[r] = "pg_restore"
  /\ \E res \in {"ok", "fail", "int"} :
       /\ res = "ok" => remote_dump.exists
       /\ m_run(r, "pg_restore", DEST_POD,
                restore_cmd(DEST_DEFAULT_USER, dest_db, clean[r]), res)
       /\ restored' = [restored EXCEPT ![r] = IF res = "int" THEN @ ELSE remote_dump]
       /\ m_raised' = m_raised
       /\ IF res = "ok" THEN m_goto(r, "rm_dump") ELSE m_sys_exit(r, 1)
  /\ UNCHANGED <<clean, dump_data, local_tmp, remote_dump, m_success>>

\* restore_database, lines 224-226: pg_restore; its finally clause runs next
restore_database_pg_restore(r) ==
  /\ mpc[r] = "pg_restore"
  /\ \E res \in {"ok", "fail", "int"} :
       /\ res = "ok" => remote_dump.exists
       /\ m_run(r, "pg_restore", DEST_POD,
                restore_cmd(DEST_DEFAULT_USER, dest_db, clean[r]), res)
       /\ restored' = [restored EXCEPT ![r] = IF res = "int" THEN @ ELSE remote_dump]
       /\ m_raised' = [m_raised EXCEPT ![r] =
                         IF res = "ok" THEN "none"
                         ELSE IF res = "fail" THEN "CalledProcessError"
                         ELSE "KeyboardInterrupt"]
  /\ m_goto(r, "rm_dump")
  /\ UNCHANGED <<clean, dump_data, local_tmp, remote_dump, m_success>>

\* restore_database_rm whose finally clause drops the exception of pg_restore
restore_database_rm_swallowing(r) ==
  /\ mpc[r] = "rm_dump"
  /\ \E res \in {"ok", "fail", "int"} :
       /\ res = "ok" => remote_dump.exists
       /\ m_run(r, "rm_dump", DEST_POD, <<"rm", "/tmp/dump.dump">>, res)
       /\ remote_dump' = IF res = "ok" THEN NoFile ELSE remote_dump
       /\ IF res = "int"
            THEN m_sys_exit(r, 1)
            ELSE m_goto(r, "fix_permissions")
       \* a KeyboardInterrupt raised in the finally clause replaces the
       \* exception in flight
       /\ m_raise(r, IF res = "int" THEN Raised(res) ELSE m_raised[r])
  /\ UNCHANGED <<clean, dump_data, local_tmp, restored, m_success>>

\* restore_database, lines 227-233: rm /tmp/dump.dump in the finally clause;
\* CalledProcessError is ignored, the exception of pg_restore goes on
restore_database_rm(r) ==
  /\ mpc[r] = "rm_dump"
  /\ \E res \in {"ok", "fail", "int"} :
       /\ res = "ok" => remote_dump.exists
       /\ m_run(r, "rm_dump", DEST_POD, <<"rm", "/tmp/dump.dump">>, res)
       /\ remote_dump' = IF res = "ok" THEN NoFile ELSE remote_dump
       /\ IF res = "int" \/ m_raised[r] # "none"
            THEN m_sys_exit(r, 1)
            ELSE m_goto(r, "fix_permissions")
       \* a KeyboardInterrupt raised in the finally clause replaces the
       \* exception in flight
       /\ m_raise(r, IF res = "int" THEN Raised(res) ELSE m_raised[r])
  /\ UNCHANGED <<clean, dump_data, local_tmp, restored, m_success>>

\* fix_database_permissions letting the CalledProcessError of the script go on
\* to the handler of the entry point
fix_database_permissions_raising(r) ==
  /\ mpc[r] = "fix_permissions"
  /\ \E res \in {"ok", "fail", "int"} :
       /\ m_run(r, "fix_permissions", DEST_POD,
                <<"psql", "-U", DEST_DEFAULT_USER, "-d", dest_db, "-tAc", "DO">>, res)
       /\ IF res \in {"int", "fail"}
            THEN m_sys_exit(r, 1) /\ m_success' = m_success
            ELSE /\ m_success' = [m_success EXCEPT ![r] = TRUE]
                 /\ m_sys_exit(r, 0)
       /\ m_raise(r, Raised(res))
  /\ UNCHANGED <<clean, dump_data, local_tmp, remote_dump, restored>>

\* fix_database_permissions, lines 172-177, and main lines 320-324
fix_database_permissions(r) ==
  /\ mpc[r] = "fix_permissions"
  /\ \E res \in {"ok", "fail", "int"} :
       /\ m_run(r, "fix_permissions", DEST_POD,
                <<"psql", "-U", DEST_DEFAULT_USER, "-d", dest_db, "-tAc", "DO">>, res)
       /\ IF res = "int"
            THEN m_sys_exit(r, 1) /\ m_success' = m_success
            ELSE /\ m_success' = [m_success EXCEPT ![r] = TRUE]
                 /\ m_sys_exit(r, 0)
       \* CalledProcessError is caught at line 172
       /\ m_raise(r, IF res = "int" THEN Raised(res) ELSE "none")
  /\ UNCHANGED <<clean, dump_data, local_tmp, remote_dump, restored>>

(* ==================== helper pod names of Volume Sync ================= *)
\* Two invocations of sync_pvc_from_host.py against one namespace, each up to
\* the point where main has chosen the name of its helper pod.
Invocations == {1, 2}

VARIABLES
  pvc_name,       \* args.pvc_name of each invocation
  now,            \* time.time() read at line 323, in clock ticks
  pod_name        \* the name main chose: "" until line 323 has run

nameVars == <<pvc_name, now, pod_name>>

PvcNames == {"data", "data-1", "media"}
StartTicks == 0 .. MaxStartTick

\* int(time.time()): the fraction of the second is dropped
int_time(t) == t \div TicksPerSecond

\* main, line 323: f"pvc-sync-{args.pvc_name}-{int(time.time())}"
format_pod_name(name, t) == "pvc-sync-" \o name \o "-" \o ToString(int_time(t))

NameState(started) ==
  /\ pvc_name \in IF started THEN [Invocations -> PvcNames]
                            ELSE {[i \in Invocations |-> "data"]}
  /\ now \in IF started THEN [Invocations -> StartTicks]
                       ELSE {[i \in Invocations |-> 0]}
  /\ pod_name = [i \in Invocations |-> ""]

\* main, lines 322-323
main_pod_name(i) ==
  /\ pod_name[i] = ""
  /\ pod_name' = [pod_name EXCEPT ![i] = format_pod_name(pvc_name[i], now[i])]
  /\ UNCHANGED <<pvc_name, now>>

(* ================= check_host_path_exists_on_node ===================== *)
\* The function is defined in sync_pvc_from_host.py but main never calls it;
\* it is modelled on its own, as a caller applying it MaxCalls times.
Calls == 1 .. MaxCalls

VARIABLES
  test_outcome,   \* how 'kubectl exec ... test -d /host-data' ends at each call
  path_exists     \* what the function returned: "none" until the call is made

hostVars == <<test_outcome, path_exists>>

\* "ok": exit status 0; "fail": non-zero exit status, of test or of kubectl;
\* "int": KeyboardInterrupt while the subprocess runs; "oserror": kubectl
\* cannot be started
TestOutcomes == {"ok", "fail", "int", "oserror"}

\* run_kubectl, lines 28-43: subprocess.run raises CalledProcessError for a
\* non-zero exit only under check=True; the other two leave it in any case
run_kubectl_raises(check, outcome) ==
  \/ outcome \in {"int", "oserror"}
  \/ check /\ outcome = "fail"

\* check_host_path_exists_on_node, lines 57-65: run_kubectl(..., check=False),
\* then return True; the bare except returns False
check_host_path_exists_on_node_ret(outcome) ==
  IF run_kubectl_raises(FALSE, outcome) THEN "false" ELSE "true"

HostPathState(started) ==
  /\ test_outcome \in IF started THEN [Calls -> TestOutcomes]
                                ELSE {[c \in Calls |-> "ok"]}
  /\ path_exists = [c \in Calls |-> "none"]

check_host_path_exists_on_node(c) ==
  /\ path_exists[c] = "none"
  /\ path_exists' = [path_exists EXCEPT
                       ![c] = check_host_path_exists_on_node_ret(test_outcome[c])]
  /\ UNCHANGED test_outcome

(* =========================== specifications =========================== *)
vars == <<syncVars, migVars, nameVars, hostVars>>

\* one invocation of sync_pvc_from_host.py
SyncInit == SyncState(TRUE) /\ MigrateState({}) /\ NameState(FALSE) /\ HostPathState(FALSE)
SyncStep ==
  \/ check_pvc_exists /\ UNCHANGED <<migVars, nameVars, hostVars>>
  \/ create_temp_pod_apply /\ UNCHANGED <<migVars, nameVars, hostVars>>
  \/ create_temp_pod_poll /\ UNCHANGED <<migVars, nameVars, hostVars>>
  \/ create_temp_pod_sleep /\ UNCHANGED <<migVars, nameVars, hostVars>>
  \/ sync_test_host_path /\ UNCHANGED <<migVars, nameVars, hostVars>>
  \/ sync_file_count /\ UNCHANGED <<migVars, nameVars, hostVars>>
  \/ sync_copy /\ UNCHANGED <<migVars, nameVars, hostVars>>
  \/ verify_sync_probe /\ UNCHANGED <<migVars, nameVars, hostVars>>
  \/ delete_pod /\ UNCHANGED <<migVars, nameVars, hostVars>>
SpecSync == SyncInit /\ [][SyncStep]_vars

\* one invocation of migrate_database.py
MigrateInit == SyncState(FALSE) /\ MigrateState({1}) /\ NameState(FALSE) /\ HostPathState(FALSE)
MigrateStep ==
  \E r \in Runs :
    \/ check_pod_exists(r) /\ UNCHANGED <<syncVars, nameVars, hostVars>>
    \/ check_database_exists(r) /\ UNCHANGED <<syncVars, nameVars, hostVars>>
    \/ dump_database(r) /\ UNCHANGED <<syncVars, nameVars, hostVars>>
    \/ restore_database_cp(r) /\ UNCHANGED <<syncVars, nameVars, hostVars>>
    \/ restore_database_pg_restore(r) /\ UNCHANGED <<syncVars, nameVars, hostVars>>
    \/ restore_database_rm(r) /\ UNCHANGED <<syncVars, nameVars, hostVars>>
    \/ fix_database_permissions(r) /\ UNCHANGED <<syncVars, nameVars, hostVars>>
SpecMigrate == MigrateInit /\ [][MigrateStep]_vars

\* two invocations of migrate_database.py at once; both address DEST_POD and
\* the path /tmp/dump.dump inside it
MigrateTwoInit == SyncState(FALSE) /\ MigrateState(Runs) /\ NameState(FALSE) /\ HostPathState(FALSE)
SpecMigrateTwo == MigrateTwoInit /\ [][MigrateStep]_vars

\* two invocations of sync_pvc_from_host.py naming their helper pods
NameInit ==
  SyncState(FALSE) /\ MigrateState({}) /\ NameState(TRUE) /\ HostPathState(FALSE)
NameStep == \E i \in Invocations : main_pod_name(i) /\ UNCHANGED <<syncVars, migVars, hostVars>>
SpecNames == NameInit /\ [][NameStep]_vars

\* MaxCalls calls of check_host_path_exists_on_node
HostPathInit ==
  SyncState(FALSE) /\ MigrateState({}) /\ NameState(FALSE) /\ HostPathState(TRUE)
HostPathStep ==
  \E c \in Calls :
    check_host_path_exists_on_node(c) /\ UNCHANGED <<syncVars, migVars, nameVars>>
SpecHostPath == HostPathInit /\ [][HostPathStep]_vars

\* one invocation of either script
EitherInit == SyncInit \/ MigrateInit
EitherStep == SyncStep \/ MigrateStep
SpecEither == EitherInit /\ [][EitherStep]_vars

(* ======================= properties: Volume Sync ====================== *)
Issued(c) == \E i \in DOMAIN issued : issued[i] = c
Times(c) == Cardinality({i \in DOMAIN issued : issued[i] = c})
LastIndex(c) ==
  CHOOSE i \in DOMAIN issued :
    issued[i] = c /\ \A j \in DOMAIN issued : j > i => issued[j] # c
Exited == pc = "exited"

\* C1: in every run whose kubectl apply succeeded, delete_pod has been issued
\* exactly once when the process exits, whichever later step failed or was
\* interrupted; and a delete_pod that fails leaves the run's exit status as
\* main had settled it.
C1_DeleteExactlyOnce ==
  /\ (Exited /\ result["apply"] = "ok") => Times("delete_pod") = 1
  /\ (Exited /\ result["delete_pod"] = "fail") => exit_code = pending

\* C2: a run whose readiness wait timed out (the phase never became Running
\* within max_wait seconds) exits with code 1 and has issued delete_pod.
C2_TimeoutExitsAndDeletes ==
  (Exited /\ wait_outcome = "timeout") =>
    (exit_code = 1 /\ Issued("delete_pod"))

\* C3: once a KeyboardInterrupt was raised in a step, no further pipeline
\* step is issued (only cleanup: delete_pod in Volume Sync, rm of
\* /tmp/dump.dump in Database Migration), the process exits with code 1, and
\* by then the cleanup of what the run created was attempted: delete_pod if
\* the manifest was applied, rm of the remote dump if it was copied, and the
\* local dump file is gone unless its unlink failed.
C3_InterruptStopsAndCleansUp ==
  /\ \A c \in SyncCmds : result[c] = "int" =>
       /\ c # "sleep" =>
            \A j \in DOMAIN issued : j > LastIndex(c) => issued[j] = "delete_pod"
       /\ Exited => exit_code = 1
       /\ (Exited /\ result["apply"] = "ok") => Issued("delete_pod")
  /\ \A r \in Runs : \A st \in MigSteps : m_result[r][st] = "int" =>
       /\ \A i, j \in DOMAIN m_issued[r] :
            (m_issued[r][i].step = st /\ j > i) => m_issued[r][j].step = "rm_dump"
       /\ mpc[r] = "exited" =>
            /\ m_exit[r] = 1
            /\ remote_dump.exists => m_result[r]["rm_dump"] # "none"

\* C6: with --dry-run and an existing volume claim the run has exited with
\* code 0 and the volume-claim check is the only command it ever issued.
C6_DryRunOnlyChecks ==
  (dry_run /\ result["get_pvc"] = "ok") =>
    (Exited /\ exit_code = 0 /\ issued = <<"get_pvc">>)

C6_Witness == Exited /\ dry_run /\ result["get_pvc"] = "ok"

\* C10: a run exits with code 0 exactly when it is a dry run whose volume
\* claim exists, or when the manifest was applied, the pod was seen Running,
\* the host-path check and the bulk copy all succeeded; every other run exits
\* with code 1.
C10_ExitCodeCharacterised ==
  Exited =>
    /\ exit_code \in {0, 1}
    /\ exit_code = 0 <=>
         \/ dry_run /\ result["get_pvc"] = "ok"
         \/ /\ result["apply"] = "ok"
            /\ wait_outcome = "ready"
            /\ result["test_d"] = "ok"
            /\ result["copy"] = "ok"

(* =================== properties: Database Migration =================== *)
\* the program a command of m_issued runs
MTool(e) == IF e.argv[1] = "kubectl" THEN e.argv[2] ELSE e.argv[1]
HasArg(e, a) == \E i \in DOMAIN e.argv : e.argv[i] = a
\* the permission script is the psql call with -d; the existence checks have none
IsPermissionFix(e) == MTool(e) = "psql" /\ HasArg(e, "-d")
IsDestMutation(e) == MTool(e) \in {"cp", "pg_restore"} \/ IsPermissionFix(e)
Idx(r, tool) == {i \in DOMAIN m_issued[r] : MTool(m_issued[r][i]) = tool}
PermIdx(r) == {i \in DOMAIN m_issued[r] : IsPermissionFix(m_issued[r][i])}
MExited(r) == mpc[r] = "exited"

\* C4: when pg_dump exits 0 with a zero-length payload the run has exited
\* with code 1 and has issued neither kubectl cp, nor pg_restore, nor the
\* permission script; and pg_restore is never issued for an empty payload.
C4_EmptyDumpAborts ==
  \A r \in Runs :
    /\ (m_result[r]["pg_dump"] = "ok" /\ Len(dump_data[r]) = 0) =>
         /\ MExited(r) /\ m_exit[r] = 1
         /\ \A i \in DOMAIN m_issued[r] : ~IsDestMutation(m_issued[r][i])
    /\ Idx(r, "pg_restore") # {} => Len(dump_data[r]) > 0

C4_Witness ==
  MExited(1) /\ m_result[1]["pg_dump"] = "ok" /\ Len(dump_data[1]) = 0

\* C5: when the destination-database check returns false the run has exited
\* with code 1 without issuing pg_dump; and wherever pg_dump was issued, both
\* pod checks and both database checks were issued before it and returned
\* true, and no kubectl cp, pg_restore or permission script precedes it.
C5_ChecksPrecedeDump ==
  \A r \in Runs :
    /\ m_result[r]["check_dest_db"] \in {"", "fail"} =>
         (MExited(r) /\ m_exit[r] = 1 /\ Idx(r, "pg_dump") = {})
    /\ \A i \in Idx(r, "pg_dump") :
         /\ m_result[r]["check_source_pod"] = "Running"
         /\ m_result[r]["check_dest_pod"] = "Running"
         /\ m_result[r]["check_source_db"] = "1"
         /\ m_result[r]["check_dest_db"] = "1"
         /\ Cardinality({j \in Idx(r, "get") : j < i}) = 2
         /\ Cardinality({j \in Idx(r, "psql") : j < i}) = 2
         /\ \A j \in 1 .. (i - 1) : ~IsDestMutation(m_issued[r][j])

C5_Witness ==
  MExited(1) /\ m_result[1]["check_dest_db"] \in {"", "fail"}

\* C7: every pg_restore command carries --no-owner and --no-acl, and carries
\* --clean exactly when the run was started with --clean.
C7_RestoreFlags ==
  \A r \in Runs : \A i \in Idx(r, "pg_restore") :
    /\ HasArg(m_issued[r][i], "--no-owner")
    /\ HasArg(m_issued[r][i], "--no-acl")
    /\ HasArg(m_issued[r][i], "--clean") <=> clean[r]

C7_Witness == Idx(1, "pg_restore") # {} /\ ~clean[1]

\* C8: once pg_restore has returned, succeeded or failed, the rm of
\* /tmp/dump.dump is the next command: a run that copied the dump never exits
\* without having issued rm after pg_restore; and a run whose pg_restore
\* failed exits with code 1.
C8_RemoteDumpRemoved ==
  \A r \in Runs :
    /\ m_result[r]["pg_restore"] # "none" =>
         \/ mpc[r] = "rm_dump"
         \/ \E i \in Idx(r, "pg_restore"), j \in Idx(r, "rm") : j = i + 1
    /\ (MExited(r) /\ m_result[r]["kubectl_cp"] = "ok") =>
         \E i \in Idx(r, "pg_restore"), j \in Idx(r, "rm") : i < j
    /\ (MExited(r) /\ m_result[r]["pg_restore"] = "fail") => m_exit[r] = 1

C8_Witness ==
  MExited(1) /\ m_result[1]["pg_restore"] = "fail" /\ Idx(1, "rm") # {}

\* C9: the success message and exit code 0 come only after kubectl cp and
\* pg_restore both succeeded and the permission script was issued exactly
\* once, after pg_restore; when kubectl cp or pg_restore fails the permission
\* script is never issued, no later pipeline step is issued (only the rm of
\* the remote dump), and the run exits with code 1.
C9_SuccessOnlyAfterRestoreAndFix ==
  \A r \in Runs :
    /\ (MExited(r) /\ m_exit[r] = 0) => m_success[r]
    /\ m_success[r] =>
         /\ MExited(r) /\ m_exit[r] = 0
         /\ m_result[r]["kubectl_cp"] = "ok"
         /\ m_result[r]["pg_restore"] = "ok"
         /\ Cardinality(PermIdx(r)) = 1
         /\ \A i \in Idx(r, "pg_restore"), j \in PermIdx(r) : i < j
    /\ m_result[r]["kubectl_cp"] = "fail" =>
         /\ MExited(r) /\ m_exit[r] = 1
         /\ MTool(m_issued[r][Len(m_issued[r])]) = "cp"
    /\ m_result[r]["pg_restore"] = "fail" =>
         /\ PermIdx(r) = {}
         /\ MExited(r) => m_exit[r] = 1
         /\ \A i \in Idx(r, "pg_restore"), j \in DOMAIN m_issued[r] :
              j > i => MTool(m_issued[r][j]) = "rm"

C9_Witness == MExited(1) /\ m_exit[1] = 0 /\ m_success[1]

\* C11: when the permission script fails after pg_restore succeeded, the run
\* has printed the success message and exited with code 0: the failure is a
\* warning only.
C11_PermissionFailureIsWarning ==
  \A r \in Runs :
    m_result[r]["fix_permissions"] = "fail" =>
      /\ m_result[r]["pg_restore"] = "ok"
      /\ MExited(r) /\ m_exit[r] = 0
      /\ m_success[r]

C11_Witness ==
  /\ MExited(1) /\ m_result[1]["fix_permissions"] = "fail"
  /\ m_result[1]["pg_restore"] = "ok"

ProbeNames == {VerifyProbes[i] : i \in DOMAIN VerifyProbes}

\* C12: in a run with --verify whose bulk copy succeeded and which no
\* interrupt cut short, nothing that happens in the verification changes the
\* outcome: a mismatch, a failed probe or a probe printing something that is
\* not a number still ends in the success message and exit code 0.
C12_VerificationNeverFatal ==
  ( /\ Exited /\ verify /\ result["copy"] = "ok"
    /\ \A c \in ProbeNames \cup {"delete_pod"} : result[c] # "int" )
  => (exit_code = 0 /\ success_printed)

AllProbed == \A p \in ProbeNames : result[p] = "ok"

\* C13: whenever verify_sync has returned, it returned true exactly when all
\* four probes gave numbers, the two file counts are equal and the two byte
\* totals differ by less than 1024.  Hence equal counts and equal totals
\* (identical contents) give true, and a destination with one file fewer
\* gives false.
C13_VerifyPredicate ==
  verify_ret # "none" =>
    /\ verify_ret = "true" <=>
         /\ AllProbed
         /\ probe["host_count"] = probe["pvc_count"]
         /\ probe["host_size"] - probe["pvc_size"] < 1024
         /\ probe["pvc_size"] - probe["host_size"] < 1024
    /\ ( /\ AllProbed
         /\ probe["host_count"] = probe["pvc_count"]
         /\ probe["host_size"] = probe["pvc_size"] ) => verify_ret = "true"
    /\ (AllProbed /\ probe["pvc_count"] = probe["host_count"] - 1) =>
         verify_ret = "false"

C13_Witness ==
  /\ verify_ret = "true" /\ AllProbed
  /\ probe["host_count"] = 1
  /\ probe["host_size"] # probe["pvc_size"]

\* C14: when either side of the tar pipe left with a non-zero status, the
\* copy step has failed: the script did not report success, the success
\* message is never printed, and the run, unless interrupted during the
\* teardown, exits with code 1.
C14_TarFailureAborts ==
  (pipe.create # 0 \/ pipe.extract # 0) =>
    /\ result["copy"] = "fail"
    /\ ~success_printed
    /\ pc \in {"delete_pod", "exited"}
    /\ (Exited /\ result["delete_pod"] # "int") => exit_code = 1

MPrimaryOk(r) ==
  /\ m_result[r]["kubectl_cp"] = "ok"
  /\ m_result[r]["pg_restore"] = "ok"
  /\ m_result[r]["fix_permissions"] \in {"ok", "fail"}

\* C15: a failed cleanup never changes the outcome.  A volume-sync run whose
\* kubectl delete pod failed exits with the status main had settled on, 0
\* exactly when the success message was printed and 1 otherwise, and so does
\* a run that could not unlink its manifest file.  A migration run whose rm
\* of the remote dump failed, or which could not unlink its local dump file,
\* exits 0 exactly when kubectl cp and pg_restore succeeded and the
\* permission script was reached, and 1 otherwise.
C15_CleanupFailureHarmless ==
  /\ (Exited /\ result["delete_pod"] = "fail") =>
       /\ exit_code = pending
       /\ exit_code = IF success_printed THEN 0 ELSE 1
  /\ (Exited /\ tmp_manifest /\ result["delete_pod"] # "int") =>
       exit_code = IF success_printed THEN 0 ELSE 1
  /\ \A r \in Runs :
       ( /\ MExited(r)
         /\ \/ m_result[r]["rm_dump"] = "fail"
            \/ local_tmp[r].exists /\ m_result[r]["kubectl_cp"] # "none" )
       => /\ m_exit[r] = IF MPrimaryOk(r) THEN 0 ELSE 1
          /\ m_success[r] <=> MPrimaryOk(r)

C15_Witness ==
  /\ Exited /\ result["delete_pod"] = "fail" /\ tmp_manifest
  /\ exit_code = 0

DbChecks == {"check_source_db", "check_dest_db"}

\* C16: a database check whose probe found no row for the name, or whose
\* probe command exited non-zero, returned false without raising: no
\* exception left the step, the run exited with code 1 and the check is the
\* last command it issued.  The run went past a check only when its probe
\* succeeded and printed the row of the database.
C16_DatabaseCheckFailsClosed ==
  \A r \in Runs : \A st \in DbChecks :
    /\ m_result[r][st] \in {"", "fail"} =>
         /\ m_raised[r] = "none"
         /\ MExited(r) /\ m_exit[r] = 1
         /\ m_issued[r][Len(m_issued[r])].step = st
    /\ (\E i \in DOMAIN m_issued[r] :
          m_issued[r][i].step = st /\ i < Len(m_issued[r])) =>
         m_result[r][st] = "1"

C16_Witness ==
  /\ MExited(1) /\ m_result[1]["check_source_db"] = "fail"
  /\ m_raised[1] = "none"

\* C18: the copy command, which wipes /pvc-data and extracts into it, is
\* issued only after, in the same run and in this order, kubectl get pvc
\* succeeded, the last status query reported Running and test -d /host-data
\* succeeded (only the file-count probe comes between the test and the
\* copy), and it is issued once.  When the volume-claim check fails, the readiness wait ends in
\* Failed or in the timeout, or test -d fails, the copy command is never
\* issued and the run, unless interrupted during the teardown, exits with
\* code 1.
C18_CopyOnlyAfterChecks ==
  /\ Issued("copy") =>
       /\ result["get_pvc"] = "ok"
       /\ wait_outcome = "ready" /\ result["get_pod"] = "Running"
       /\ result["test_d"] = "ok"
       /\ \A i \in DOMAIN issued :
            issued[i] = "copy" =>
              /\ i > 4
              /\ issued[1] = "get_pvc"
              /\ issued[i - 3] = "get_pod"
              /\ issued[i - 2] = "test_d"
              /\ issued[i - 1] = "file_count"
              /\ \A j \in (i + 1) .. Len(issued) : issued[j] # "copy"
  /\ ( \/ result["get_pvc"] = "fail"
       \/ wait_outcome \in {"failed", "timeout"}
       \/ result["test_d"] = "fail" )
     => /\ ~Issued("copy")
        /\ pc \in {"delete_pod", "exited"}
        /\ (Exited /\ result["delete_pod"] # "int") => exit_code = 1

C18_Witness ==
  Exited /\ result["test_d"] = "fail" /\ Issued("delete_pod") /\ exit_code = 1

InWait == pc \in {"get_pod", "sleep"}

\* C19: the readiness wait ends, and ends as the claim says.  It makes at
\* most max_wait / 2 status queries, starts none once max_wait seconds have
\* gone since it began, and can always take its next step.  A query that
\* reports Running ends it at once with "ready", one that reports Failed
\* ends it at once with failure; "ready" is returned only on a query that
\* reported Running; and it returns the timeout failure only when max_wait
\* seconds or more have gone, at the first loop test after that.
C19_WaitEnds ==
  /\ Times("get_pod") <= max_wait \div sleep_secs
  /\ pc = "get_pod" => elapsed < max_wait
  /\ InWait => ENABLED SyncStep
  /\ result["get_pod"] = "Running" => (wait_outcome = "ready" /\ ~InWait)
  /\ result["get_pod"] = "Failed" => (wait_outcome = "failed" /\ ~InWait)
  /\ wait_outcome = "ready" => result["get_pod"] = "Running"
  /\ wait_outcome = "timeout" =>
       /\ result["get_pod"] \in {"Pending", "fail"}
       /\ elapsed >= max_wait
       /\ elapsed < max_wait + MaxPollTime + sleep_secs
       /\ ~InWait

C19_Witness ==
  /\ wait_outcome = "timeout" /\ Exited
  /\ Times("get_pod") = max_wait \div sleep_secs

\* C21: two migration runs with interleaved steps do not interfere.  A run
\* that has copied its dump and not yet run pg_restore finds /tmp/dump.dump
\* in the destination pod holding the payload it dumped itself: no other run
\* has overwritten or removed it.  And a pg_restore that succeeded read
\* exactly the payload its own run dumped.
C21_RunsIndependent ==
  \A r \in Runs :
    /\ mpc[r] = "pg_restore" => remote_dump = File(dump_data[r])
    /\ m_result[r]["pg_restore"] = "ok" => restored[r] = File(dump_data[r])

\* C22: a file-count probe that reports 0 files, or that fails, never stops
\* the copy: the command that wipes /pvc-data and copies is the next one
\* issued.  When that copy succeeds, in a run without --verify that is not
\* interrupted during the teardown, the success message is printed and the
\* exit code is 0.
C22_EmptySourceStillCopies ==
  result["file_count"] \in {"zero", "fail"} =>
    /\ \A i \in DOMAIN issued :
         issued[i] = "file_count" =>
           IF i = Len(issued) THEN pc = "copy" ELSE issued[i + 1] = "copy"
    /\ ( /\ Exited /\ ~verify /\ result["copy"] = "ok"
         /\ result["delete_pod"] \in {"ok", "fail"} )
       => (exit_code = 0 /\ success_printed)

C22_Witness ==
  /\ Exited /\ result["file_count"] = "zero" /\ result["copy"] = "ok"
  /\ exit_code = 0 /\ success_printed

(* ==================== properties: both procedures ===================== *)
MTimes(r, st) == Cardinality({i \in DOMAIN m_issued[r] : m_issued[r][i].step = st})

SyncAborted ==
  /\ pc \in {"delete_pod", "exited"}
  /\ ~success_printed
  /\ Exited => exit_code # 0
  /\ (Exited /\ result["delete_pod"] # "int") => exit_code = 1

MAborted(r) ==
  /\ mpc[r] \in {"rm_dump", "exited"}
  /\ ~m_success[r]
  /\ MExited(r) => m_exit[r] = 1

MigrationFailuresAbort ==
  \A r \in Runs :
    /\ \A st \in MigSteps : MTimes(r, st) <= 1
    /\ \A st \in MigSteps \ {"rm_dump", "fix_permissions"} :
         m_result[r][st] = "fail" => MAborted(r)

\* C20 as stated: a command that failed is not issued again, and a failure of
\* any remote call other than permission repair, verification and teardown,
\* the status query of the readiness wait and the file-count probe among
\* them, aborts the run with exit code 1.
C20_EveryFailureAborts ==
  /\ \A c \in SyncCmds \ {"sleep"} : result[c] = "fail" => pc # c
  /\ \A c \in {"get_pvc", "apply", "get_pod", "test_d", "file_count", "copy"} :
       result[c] = "fail" => SyncAborted
  /\ MigrationFailuresAbort

\* C20, amended: the status query of the readiness wait is issued again
\* after a failure, but only inside the wait and before max_wait seconds
\* have gone; a failed file-count probe is ignored and the copy follows; no
\* other command is issued twice; and the failure of any other remote call,
\* permission repair, verification and teardown apart, aborts the run: only
\* the teardown follows, success is not reported, and the exit code is 1,
\* or the interrupt status when the teardown itself is interrupted.
C20_FailuresAbortUnlessTolerated ==
  /\ Cardinality({issued[i] : i \in DOMAIN issued}) =
       Len(issued) - (IF Issued("get_pod") THEN Times("get_pod") - 1 ELSE 0)
  /\ \A c \in {"get_pvc", "apply", "test_d", "copy"} :
       result[c] = "fail" => SyncAborted
  /\ (result["get_pod"] = "fail" /\ pc = "get_pod") =>
       (wait_outcome = "none" /\ elapsed < max_wait)
  /\ result["get_pod"] = "fail" =>
       (InWait \/ (wait_outcome \in {"timeout", "raised"} /\ SyncAborted))
  /\ result["file_count"] = "fail" => (pc = "copy" \/ Issued("copy"))
  /\ MigrationFailuresAbort

C20_Witness ==
  /\ pc = "get_pod" /\ result["get_pod"] = "fail"
  /\ Times("get_pod") >= 1 /\ elapsed >= sleep_secs

(* ====================== properties: helper pod names ================== *)
\* C17: two distinct invocations of Volume Sync never choose the same helper
\* pod name, whatever their volume-claim names and start times.
C17_PodNamesDistinct ==
  \A i, j \in Invocations :
    (i # j /\ pod_name[i] # "" /\ pod_name[j] # "") => pod_name[i] # pod_name[j]

(* ============ properties: check_host_path_exists_on_node ============== *)
\* C23: a call of check_host_path_exists_on_node returned true exactly when
\* test -d /host-data inside the helper pod left with exit status 0; in
\* particular it returned false when the test left with a non-zero status.
C23_TrueIffTestSucceeds ==
  \A c \in Calls :
    path_exists[c] # "none" =>
      (path_exists[c] = "true" <=> test_outcome[c] = "ok")

====
